---- MODULE Spec2Model ----
(***************************************************************************)
(* A model of the philo-voice server code:                                 *)
(*   - the chat endpoint (src/app/api/chat/route.ts): assistant            *)
(*     resolution, thread resolution, message submission, run creation,    *)
(*     the polling loop waitForRunCompletion, answer extraction, citation  *)
(*     lookup, citation-marker clean-up and the catch block;               *)
(*   - the citation-marker clean-up as a pure function on texts;           *)
(*   - the text-to-speech dispatch (src/lib/tts);                          *)
(*   - the transcription endpoint (src/app/api/transcribe/route.ts);       *)
(*   - the chat page (the Home component).                                 *)
(*                                                                         *)
(* Texts are sequences of one-character strings.  In texts "[" stands for  *)
(* the opening lenticular bracket, "]" for the closing one and "+" for the *)
(* dagger of a citation marker.                                            *)
(*                                                                         *)
(* Each action of the chat model is the piece of the handler that runs     *)
(* between two awaits: it starts when the awaited remote call returns and  *)
(* ends by issuing the next remote call (recorded in the frame's calls).   *)
(***************************************************************************)
EXTENDS Integers, Sequences, FiniteSets, TLC

\* Number of request frames of the chat endpoint.
NumReq == 2

\* Longest text, in pieces, given to the citation-marker clean-up.
MaxPieces == 3

\* Longest text given to speech synthesis.
MaxTtsLen == 5000

\* Waits of a request for its run when requests overlap.
MaxConcWaits == 1

\* waitForRunCompletion's default for maxAttempts.
maxAttempts == 60

\* synthesizeWithOpenAI's limit on the text it submits.
maxLength == 4096

Reqs == 1..NumReq

VARIABLES
  envAssistantId,  \* process.env.OPENAI_ASSISTANT_ID
  assistantId,     \* the module-level cache of the assistant id
  nAssistants,     \* remote: number of assistants created so far
  threads,         \* remote: threads[n] is the message log of thread n, newest first
  runs,            \* remote: the runs created so far
  req,             \* req[r]: the frame (locals, position, response) of request r
  san,             \* the citation-marker clean-up applied to a text on its own
  ttsEnv,          \* the environment of the speech-synthesis module
  tts,             \* the frame of a synthesizeSpeech call
  trn,             \* trn[r]: the frame of request r of the transcription endpoint
  page             \* the state of the chat page (src/app/page.tsx) in one browser tab

chatVars == <<envAssistantId, assistantId, nAssistants, threads, runs, req>>
vars == <<envAssistantId, assistantId, nAssistants, threads, runs, req, san, ttsEnv, tts, trn, page>>

-----------------------------------------------------------------------------
(* Identifiers and JavaScript values *)

NULL == <<"null", 0>>
EMPTYSTR == <<"empty", 0>>          \* the empty string given as an id
BOGUS == <<"bogus", 0>>             \* a non-empty id that names nothing remotely
ENVID == <<"env", 0>>               \* an id supplied through the environment

\* !x for the ids above: null, undefined and "" are falsy.
FalsyId(x) == x \in {NULL, EMPTYSTR}

IsSpace(c) == c \in {" ", "\n"}

RECURSIVE TrimStart(_)
TrimStart(s) ==
  IF s = <<>> THEN <<>>
  ELSE IF IsSpace(Head(s)) THEN TrimStart(Tail(s)) ELSE s

RECURSIVE TrimEnd(_)
TrimEnd(s) ==
  IF s = <<>> THEN <<>>
  ELSE IF IsSpace(s[Len(s)]) THEN TrimEnd(SubSeq(s, 1, Len(s) - 1)) ELSE s

\* String.prototype.trim
Trim(s) == TrimEnd(TrimStart(s))

\* The `message` member of a request body.
MsgUndefined == [type |-> "undefined", text |-> <<>>]
MsgNumber == [type |-> "number", text |-> <<"4", "2">>]
MsgString(t) == [type |-> "string", text |-> t]

MessageInputs ==
  { MsgUndefined, MsgNumber, MsgString(<<>>), MsgString(<<" ", "\n">>),
    MsgString(<<"h", "i">>) }

\* !message
FalsyMessage(m) ==
  CASE m.type = "undefined" -> TRUE
    [] m.type = "number" -> FALSE
    [] m.type = "string" -> m.text = <<>>

\* The parsed bodies a caller can send; parsable = FALSE is a body
\* request.json() rejects.
ThreadInputs == {NULL, EMPTYSTR, BOGUS} \cup {<<"thread", n>> : n \in 1..Len(threads)}

Bodies ==
  [parsable : {TRUE}, message : MessageInputs, threadId : ThreadInputs]
    \cup {[parsable |-> FALSE, message |-> MsgUndefined, threadId |-> NULL]}

-----------------------------------------------------------------------------
(* The citation-marker clean-up, route.ts line 174:                        *)
(*   responseText.replace(/[\d+:\d+ +[^\]]*]/g, '')  in the stand-in       *)
(* alphabet.                                                               *)

IsDigit(c) == c \in {"0", "1", "2", "3", "4", "5", "6", "7", "8", "9"}

\* First index >= i of s that holds no digit (Len(s) + 1 when there is none):
\* where a greedy \d+ started at i stops.
RECURSIVE DigitRunEnd(_, _)
DigitRunEnd(s, i) ==
  IF i > Len(s) THEN i
  ELSE IF IsDigit(s[i]) THEN DigitRunEnd(s, i + 1) ELSE i

\* First index >= i of s that holds "]", 0 when there is none: where a greedy
\* [^\]]* started at i, followed by "]", ends the match.
RECURSIVE FirstClose(_, _)
FirstClose(s, i) ==
  IF i > Len(s) THEN 0
  ELSE IF s[i] = "]" THEN i ELSE FirstClose(s, i + 1)

\* MatchEnd for a pattern that takes any bracketed text for a marker.
MatchEndAnyBracket(s, i) ==
  IF s[i] # "[" THEN 0 ELSE FirstClose(s, i + 1)

\* The match of the marker pattern that starts at index i: the index of its
\* last character, 0 when the pattern does not match at i.
MatchEnd(s, i) ==
  IF s[i] # "[" THEN 0
  ELSE LET b == DigitRunEnd(s, i + 1) IN
    IF b = i + 1 \/ b > Len(s) THEN 0
    ELSE IF s[b] # ":" THEN 0
    ELSE LET d == DigitRunEnd(s, b + 1) IN
      IF d = b + 1 \/ d > Len(s) THEN 0
      ELSE IF s[d] # "+" THEN 0
      ELSE FirstClose(s, d + 1)

\* ReplaceFrom without the g flag: only the first match is dropped.
RECURSIVE ReplaceFirstFrom(_, _)
ReplaceFirstFrom(s, i) ==
  IF i > Len(s) THEN <<>>
  ELSE LET e == MatchEnd(s, i) IN
    IF e # 0 THEN SubSeq(s, e + 1, Len(s))
    ELSE <<s[i]>> \o ReplaceFirstFrom(s, i + 1)

\* The global replace, scanning from index i: a match is dropped and the scan
\* resumes behind it; a character that starts no match is copied.
RECURSIVE ReplaceFrom(_, _)
ReplaceFrom(s, i) ==
  IF i > Len(s) THEN <<>>
  ELSE LET e == MatchEnd(s, i) IN
    IF e # 0 THEN ReplaceFrom(s, e + 1)
    ELSE <<s[i]>> \o ReplaceFrom(s, i + 1)

CleanCitationMarkers(s) == ReplaceFrom(s, 1)

-----------------------------------------------------------------------------
(* Remote data: message contents, annotations, files, run steps *)

TextBlock(v, a) == [type |-> "text", value |-> v, annotations |-> a]
ImageBlock == [type |-> "image_file", value |-> <<>>, annotations |-> <<>>]

\* An annotation; file_id is "" when annotation.file_citation?.file_id is absent.
Cite(id) == [type |-> "file_citation", file_id |-> id]
PathAnnotation == [type |-> "file_path", file_id |-> ""]

\* openai.files.retrieve(id).filename: file names are not unique, file_A and
\* file_C are two uploads of one document.
FileName(id) ==
  CASE id = "file_A" -> "Title A"
    [] id = "file_B" -> "Title B"
    [] OTHER -> "Title A"

\* The contents the backend may give the assistant message of a completed run.
AnswerContents ==
  { <<TextBlock(<<"O", "k">>, <<>>)>>,
    <<ImageBlock,
      TextBlock(<<"A", "[", "4", ":", "0", "+", "s", "]", "[", "4", ":", "1", "+", "s", "]", ".">>,
                <<Cite("file_A"), PathAnnotation, Cite("file_B"), Cite("file_A")>>)>>,
    <<TextBlock(<<"B", "[", "1", ":", "2", "+", "t", "]">>,
                <<Cite("file_A"), Cite(""), Cite("file_C")>>)>>,
    <<TextBlock(<<>>, <<>>)>>,
    <<ImageBlock>>,
    <<>> }

\* The fixed fallback text of route.ts line 160.
FALLBACK == <<"I could not formulate a response. Please try again.">>

ToolStep(calls) == [type |-> "tool_calls", tool_calls |-> calls]
MessageStep == [type |-> "message_creation", tool_calls |-> <<>>]

\* The step lists runs.steps.list may return for a completed run.
StepLists ==
  { <<MessageStep>>,
    <<MessageStep, ToolStep(<<"file_search", "file_search">>)>> }

\* route.ts lines 144-151: filter the tool_calls steps, flatMap to the call types.
RECURSIVE ToolsUsed(_)
ToolsUsed(steps) ==
  IF steps = <<>> THEN <<>>
  ELSE (IF Head(steps).type = "tool_calls" THEN Head(steps).tool_calls ELSE <<>>)
         \o ToolsUsed(Tail(steps))

\* Line 158, messages.data.find(m => m.role === 'assistant'): the index of the
\* first message of the assistant, 0 when there is none.
FirstAssistantMessage(data) ==
  IF \E i \in 1..Len(data) : data[i].role = "assistant"
  THEN CHOOSE i \in 1..Len(data) :
         data[i].role = "assistant" /\ \A j \in 1..(i - 1) : data[j].role # "assistant"
  ELSE 0

\* Line 164, content.find(c => c.type === 'text'): the index of the first text
\* block, 0 when there is none.
FirstTextBlock(content) ==
  IF \E i \in 1..Len(content) : content[i].type = "text"
  THEN CHOOSE i \in 1..Len(content) :
         content[i].type = "text" /\ \A j \in 1..(i - 1) : content[j].type # "text"
  ELSE 0

\* FileIdArray with an array in place of the Set: an id is pushed once per citation.
RECURSIVE FileIdArrayNoDedup(_, _)
FileIdArrayNoDedup(annotations, seen) ==
  IF annotations = <<>> THEN <<>>
  ELSE LET a == Head(annotations) IN
    IF a.type = "file_citation" /\ a.file_id # ""
    THEN <<a.file_id>> \o FileIdArrayNoDedup(Tail(annotations), seen)
    ELSE FileIdArrayNoDedup(Tail(annotations), seen)

\* getFileReferences, lines 85-94: the cited file ids in insertion order of a Set.
RECURSIVE FileIdArray(_, _)
FileIdArray(annotations, seen) ==
  IF annotations = <<>> THEN <<>>
  ELSE LET a == Head(annotations) IN
    IF a.type = "file_citation" /\ a.file_id # "" /\ a.file_id \notin seen
    THEN <<a.file_id>> \o FileIdArray(Tail(annotations), seen \cup {a.file_id})
    ELSE FileIdArray(Tail(annotations), seen)

-----------------------------------------------------------------------------
(* Errors and responses *)

NoError == [kind |-> "none", status |-> 0, message |-> <<>>]

\* What a failing remote call throws: an OpenAI.APIError with an upstream status,
\* or one without (a connection error; status 0 stands for undefined).
ApiErrors ==
  { [kind |-> "APIError", status |-> 429, message |-> <<"Rate limit reached">>],
    [kind |-> "APIError", status |-> 0, message |-> <<"Connection error.">>] }

NotFound == [kind |-> "APIError", status |-> 404, message |-> <<"No thread found">>]

\* request.json() on an unparsable body.
SyntaxError == [kind |-> "SyntaxError", status |-> 0, message |-> <<"Unexpected token">>]

\* waitForRunCompletion, line 72.
RunError(run) ==
  [kind |-> "Error", status |-> 0,
   message |-> <<"Run ", run.status, ": ",
                 IF run.last_error = "" THEN "Unknown error" ELSE run.last_error>>]

\* waitForRunCompletion, line 80.
TimedOut == [kind |-> "Error", status |-> 0, message |-> <<"Run timed out">>]

NoResponse ==
  [status |-> 0, error |-> <<>>, response |-> <<>>, threadId |-> NULL,
   sources |-> <<>>, toolsUsed |-> <<>>]

\* ErrorResponse that answers 500 whatever the upstream status.
ErrorResponseAlways500(err) ==
  IF err.kind = "APIError"
  THEN [NoResponse EXCEPT !.status = 500,
                          !.error = <<"OpenAI API Error: ">> \o err.message]
  ELSE [NoResponse EXCEPT !.status = 500,
                          !.error = <<"An unexpected error occurred">>]

\* The catch block, lines 188-203.
ErrorResponse(err) ==
  IF err.kind = "APIError"
  THEN [NoResponse EXCEPT !.status = IF err.status # 0 THEN err.status ELSE 500,
                          !.error = <<"OpenAI API Error: ">> \o err.message]
  ELSE [NoResponse EXCEPT !.status = 500,
                          !.error = <<"An unexpected error occurred">>]

\* Lines 112-115.
BadRequest ==
  [NoResponse EXCEPT !.status = 400, !.error = <<"Message is required">>]

-----------------------------------------------------------------------------
(* Request frames *)

RemoteOps ==
  { "assistants.create", "assistants.retrieve", "threads.create",
    "messages.create", "runs.create", "runs.retrieve", "steps.list",
    "messages.list", "files.retrieve" }

\* No message selected (yet); a selected assistant message is recorded with
\* the run that produced it.
NoMessage == [found |-> FALSE, run |-> 0, content |-> <<>>]

\* The frame of a request that has not arrived.
Frame0 ==
  [ pc |-> "idle",                 \* the awaited call, or idle / sleep / done
    message |-> MsgUndefined,
    existingThreadId |-> NULL,
    asstId |-> NULL,
    threadId |-> NULL,
    runId |-> 0,                   \* run.id: the index of the run in runs
    attempts |-> 0,
    toolsUsed |-> <<>>,
    responseText |-> <<>>,
    fileIdArray |-> <<>>,
    fileNames |-> <<>>,
    calls |-> <<>>,                \* the remote calls and timers issued, in order
    lastSeen |-> "",               \* the run status the latest poll returned
    cacheAtEntry |-> NULL,         \* assistantId when the request arrived
    created |-> NULL,              \* assistant.id of the assistant it created
    answer |-> NoMessage,          \* the message line 158 selected
    raced |-> FALSE,               \* appended or created its run while a run was active
    annotations |-> <<>>,          \* the annotations given to getFileReferences
    failedIds |-> {},              \* the file ids whose files.retrieve failed
    thrown |-> NoError,
    callsAtThrow |-> 0,            \* the number of calls issued when the catch block ran
    response |-> NoResponse ]

\* Count of the calls of kind op a frame has issued.
Count(f, op) == Cardinality({i \in 1..Len(f.calls) : f.calls[i] = op})

Issue(f, op) == [f EXCEPT !.pc = op, !.calls = Append(@, op)]

Catch(f, err) ==
  [f EXCEPT !.pc = "done", !.thrown = err, !.callsAtThrow = Len(f.calls),
            !.response = ErrorResponse(err)]

\* ResolveThread that creates the run on a supplied thread without appending
\* the message first.
ResolveThreadSkipsAppend(f) ==
  IF FalsyId(f.existingThreadId)
  THEN Issue(f, "threads.create")
  ELSE Issue([f EXCEPT !.threadId = f.existingThreadId], "runs.create")

\* ResolveThread that opens a new thread whatever the caller sent.
ResolveThreadAlwaysCreates(f) == Issue(f, "threads.create")

\* Lines 121-132: thread resolution, up to the await of the next remote call.
ResolveThread(f) ==
  IF FalsyId(f.existingThreadId)
  THEN Issue(f, "threads.create")
  ELSE Issue([f EXCEPT !.threadId = f.existingThreadId], "messages.create")

\* GetOrCreateAssistant that consults the cache before the environment.
GetOrCreateAssistantCacheFirst(f) ==
  IF assistantId # NULL
  THEN ResolveThread([f EXCEPT !.asstId = assistantId])
  ELSE IF envAssistantId # NULL
  THEN ResolveThread([f EXCEPT !.asstId = envAssistantId])
  ELSE Issue(f, "assistants.create")

\* getOrCreateAssistant, lines 25-35, and what follows it when it returns at once.
GetOrCreateAssistant(f) ==
  IF envAssistantId # NULL
  THEN ResolveThread([f EXCEPT !.asstId = envAssistantId])
  ELSE IF assistantId # NULL
  THEN ResolveThread([f EXCEPT !.asstId = assistantId])
  ELSE Issue(f, "assistants.create")

\* LoopHead with the loop test off by one (attempts <= maxAttempts).
LoopHeadOffByOne(f) ==
  IF f.attempts <= maxAttempts
  THEN Issue(f, "runs.retrieve")
  ELSE Catch(f, TimedOut)

\* The head of the while loop of waitForRunCompletion, lines 64-65 and 80.
LoopHead(f) ==
  IF f.attempts < maxAttempts
  THEN Issue(f, "runs.retrieve")
  ELSE Catch(f, TimedOut)

\* Respond that synthesizes speech for the text before it answers: the frame
\* awaits the synthesis call.
RespondAfterSynthesis(f) ==
  [f EXCEPT !.pc = "audio.speech.create", !.calls = Append(@, "audio.speech.create")]

\* Lines 179-187.
Respond(f) ==
  [f EXCEPT !.pc = "done",
            !.response = [status |-> 200, error |-> <<>>,
                          response |-> f.responseText, threadId |-> f.threadId,
                          sources |-> f.fileNames, toolsUsed |-> f.toolsUsed]]

ThreadExists(id) == id[1] = "thread" /\ id[2] \in 1..Len(threads)

\* A run on thread id is queued or in progress.
ThreadBusy(id) ==
  \E k \in 1..Len(runs) :
    runs[k].thread_id = id /\ runs[k].status \in {"queued", "in_progress"}

-----------------------------------------------------------------------------
(* The chat endpoint, POST of route.ts *)

\* The other two subsystems at rest.
SanIdle == [pc |-> "idle", text |-> <<>>, once |-> <<>>, twice |-> <<>>]
TtsIdle ==
  [pc |-> "idle", provider |-> "", text |-> <<>>, backend |-> "", calls |-> <<>>,
   result |-> [kind |-> "none", value |-> <<>>]]
TtsEnvIdle == [OPENAI_API_KEY |-> TRUE, ELEVENLABS_API_KEY |-> TRUE, loaded |-> FALSE]

\* The frame of a transcription request that has not arrived.
TrnFrame0 ==
  [ pc |-> "idle",
    form |-> [parsable |-> FALSE, audio |-> "absent"],
    calls |-> <<>>,
    thrown |-> NoError,
    response |-> [status |-> 0, error |-> <<>>, text |-> <<>>] ]
TrnIdle == [r \in Reqs |-> TrnFrame0]

\* The chat page before it is mounted.
PageIdle ==
  [ chats |-> <<>>, activeChatId |-> NULL, isLoading |-> FALSE,
    now |-> 0,                     \* Date.now()
    inflight |-> {},               \* the fetches of sendMessage that have not settled
    nThreads |-> 0,                \* remote: number of threads whose id was sent to the page
    sends |-> 0,                   \* the requests sent so far
    ignored |-> FALSE ]            \* sendMessage returned at line 241 while loading

\* The turn an earlier request may have left behind on thread 1, run by asst.
EarlierLog ==
  << [role |-> "assistant", run |-> 1, content |-> <<TextBlock(<<"O", "l", "d">>, <<>>)>>],
     [role |-> "user", run |-> 0, content |-> <<TextBlock(<<"h", "i">>, <<>>)>>] >>
EarlierRun(asst) ==
  [thread_id |-> <<"thread", 1>>, assistant_id |-> asst,
   status |-> "completed", last_error |-> ""]

\* A process that has served nothing yet, or has served one turn before.  The
\* environment is read on every call (line 25), so the earlier turn may have
\* been served by a created assistant before the id was configured.
ChatInit ==
  /\ envAssistantId \in {NULL, ENVID}
  /\ \/ /\ assistantId = NULL
        /\ nAssistants = 0
        /\ threads = <<>>
        /\ runs = <<>>
     \/ /\ assistantId = IF envAssistantId = NULL THEN <<"asst", 1>> ELSE NULL
        /\ nAssistants = IF envAssistantId = NULL THEN 1 ELSE 0
        /\ threads = <<EarlierLog>>
        /\ runs = <<EarlierRun(IF envAssistantId = NULL THEN <<"asst", 1>> ELSE ENVID)>>
     \/ /\ envAssistantId = ENVID
        /\ assistantId = <<"asst", 1>>
        /\ nAssistants = 1
        /\ threads = <<EarlierLog>>
        /\ runs = <<EarlierRun(<<"asst", 1>>)>>
  /\ req = [r \in Reqs |-> Frame0]
  /\ san = SanIdle
  /\ ttsEnv = TtsEnvIdle
  /\ tts = TtsIdle
  /\ trn = TrnIdle
  /\ page = PageIdle

\* Lines 108-119: a request arrives (requests are numbered in arrival order);
\* the body is parsed and validated and the assistant is looked up.
PostBody(r, body) ==
  /\ req[r].pc = "idle"
  /\ \A q \in Reqs : q < r => req[q].pc # "idle"
  /\ LET f == [Frame0 EXCEPT !.message = body.message,
                             !.existingThreadId = body.threadId,
                             !.cacheAtEntry = assistantId]
     IN req' = [req EXCEPT ![r] =
          IF ~body.parsable THEN Catch(f, SyntaxError)
          ELSE IF FalsyMessage(f.message) \/ f.message.type # "string"
          THEN [f EXCEPT !.pc = "done", !.response = BadRequest]
          ELSE GetOrCreateAssistant(f)]
  /\ UNCHANGED <<envAssistantId, assistantId, nAssistants, threads, runs, san, ttsEnv, tts, trn, page>>

POST(r) == \E body \in Bodies : PostBody(r, body)

\* AssistantsCreateReturn that leaves the cache alone until the assistant is
\* verified.
AssistantsCreateReturnUncached(r) ==
  /\ req[r].pc = "assistants.create"
  /\ nAssistants' = nAssistants + 1
  /\ req' = [req EXCEPT ![r] =
       Issue([@ EXCEPT !.created = <<"asst", nAssistants + 1>>], "assistants.retrieve")]
  /\ UNCHANGED <<envAssistantId, assistantId, threads, runs, san, ttsEnv, tts, trn, page>>

\* Lines 35-51: assistants.create returned; the id is cached.
AssistantsCreateReturn(r) ==
  /\ req[r].pc = "assistants.create"
  /\ nAssistants' = nAssistants + 1
  /\ assistantId' = <<"asst", nAssistants + 1>>
  /\ req' = [req EXCEPT ![r] =
       Issue([@ EXCEPT !.created = <<"asst", nAssistants + 1>>], "assistants.retrieve")]
  /\ UNCHANGED <<envAssistantId, threads, runs, san, ttsEnv, tts, trn, page>>

\* Lines 51-54 and 119-132: assistants.retrieve returned; getOrCreateAssistant
\* returns the cached id as it is now.
AssistantsRetrieveReturn(r) ==
  /\ req[r].pc = "assistants.retrieve"
  /\ req' = [req EXCEPT ![r] = ResolveThread([@ EXCEPT !.asstId = assistantId])]
  /\ UNCHANGED <<envAssistantId, assistantId, nAssistants, threads, runs, san, ttsEnv, tts, trn, page>>

\* Lines 124-132: threads.create returned.
ThreadsCreateReturn(r) ==
  /\ req[r].pc = "threads.create"
  /\ threads' = Append(threads, <<>>)
  /\ req' = [req EXCEPT ![r] =
       Issue([@ EXCEPT !.threadId = <<"thread", Len(threads) + 1>>], "messages.create")]
  /\ UNCHANGED <<envAssistantId, assistantId, nAssistants, runs, san, ttsEnv, tts, trn, page>>

\* Lines 129-137: messages.create returned; the user message heads the log.
MessagesCreateReturn(r) ==
  /\ req[r].pc = "messages.create"
  /\ ThreadExists(req[r].threadId)
  /\ threads' = [threads EXCEPT ![req[r].threadId[2]] =
       <<[role |-> "user", run |-> 0,
          content |-> <<TextBlock(req[r].message.text, <<>>)>>]>> \o @]
  /\ req' = [req EXCEPT ![r] =
       Issue([@ EXCEPT !.raced = ThreadBusy(req[r].threadId)], "runs.create")]
  /\ UNCHANGED <<envAssistantId, assistantId, nAssistants, runs, san, ttsEnv, tts, trn, page>>

\* messages.create on an id that names no thread: the backend answers 404.
MessagesCreateNotFound(r) ==
  /\ req[r].pc = "messages.create"
  /\ ~ThreadExists(req[r].threadId)
  /\ req' = [req EXCEPT ![r] = Catch(@, NotFound)]
  /\ UNCHANGED <<envAssistantId, assistantId, nAssistants, threads, runs, san, ttsEnv, tts, trn, page>>

\* Lines 135-140 and 62-65: runs.create returned; waitForRunCompletion starts.
RunsCreateReturn(r) ==
  /\ req[r].pc = "runs.create"
  /\ runs' = Append(runs, [thread_id |-> req[r].threadId,
                           assistant_id |-> req[r].asstId,
                           status |-> "queued", last_error |-> ""])
  /\ req' = [req EXCEPT ![r] =
       LoopHead([@ EXCEPT !.runId = Len(runs) + 1, !.attempts = 0,
                          !.raced = @ \/ ThreadBusy(req[r].threadId)])]
  /\ UNCHANGED <<envAssistantId, assistantId, nAssistants, threads, san, ttsEnv, tts, trn, page>>

\* The backend works on run k: it starts it, or ends it.  A completed run has
\* added its assistant message to the thread (or, exceptionally, none).
BackendStarts(k) ==
  /\ k \in 1..Len(runs)
  /\ runs[k].status = "queued"
  /\ runs' = [runs EXCEPT ![k].status = "in_progress"]
  /\ UNCHANGED <<envAssistantId, assistantId, nAssistants, threads, req, san, ttsEnv, tts, trn, page>>

CompletesWith(k, contents) ==
  /\ k \in 1..Len(runs)
  /\ runs[k].status = "in_progress"
  /\ runs' = [runs EXCEPT ![k].status = "completed"]
  /\ \/ \E c \in contents :
          threads' = [threads EXCEPT ![runs[k].thread_id[2]] =
            <<[role |-> "assistant", run |-> k, content |-> c]>> \o @]
     \/ UNCHANGED threads
  /\ UNCHANGED <<envAssistantId, assistantId, nAssistants, req, san, ttsEnv, tts, trn, page>>

BackendCompletes(k) == CompletesWith(k, AnswerContents)

BackendFails(k) ==
  /\ k \in 1..Len(runs)
  /\ runs[k].status = "in_progress"
  /\ \E st \in {"failed", "cancelled", "expired"} :
       \E reason \in (IF st = "failed" THEN {"", "Rate limit exceeded"} ELSE {""}) :
         runs' = [runs EXCEPT ![k].status = st, ![k].last_error = reason]
  /\ UNCHANGED <<envAssistantId, assistantId, nAssistants, threads, req, san, ttsEnv, tts, trn, page>>

\* AfterPoll that keeps polling an expired run.
AfterPollRetriesExpired(f, run) ==
  IF run.status = "completed" THEN Issue(f, "steps.list")
  ELSE IF run.status \in {"failed", "cancelled"}
  THEN Catch(f, RunError(run))
  ELSE [f EXCEPT !.pc = "sleep", !.calls = Append(@, "setTimeout")]

\* AfterPoll that gives up on a pending run without waiting for the cap.
AfterPollGivesUp(f, run) ==
  IF run.status = "completed" THEN Issue(f, "steps.list")
  ELSE IF run.status \in {"failed", "cancelled", "expired"}
  THEN Catch(f, RunError(run))
  ELSE IF f.attempts >= 2 THEN Catch(f, TimedOut)
  ELSE [f EXCEPT !.pc = "sleep", !.calls = Append(@, "setTimeout")]

\* Lines 67-76 and 143: what waitForRunCompletion does with a polled run.
AfterPoll(f, run) ==
  IF run.status = "completed" THEN Issue(f, "steps.list")
  ELSE IF run.status \in {"failed", "cancelled", "expired"}
  THEN Catch(f, RunError(run))
  ELSE [f EXCEPT !.pc = "sleep", !.calls = Append(@, "setTimeout")]

\* Line 65: runs.retrieve returned the run's current state.
RunsRetrieveReturn(r) ==
  /\ req[r].pc = "runs.retrieve"
  /\ LET run == runs[req[r].runId]
     IN req' = [req EXCEPT ![r] = AfterPoll([@ EXCEPT !.lastSeen = run.status], run)]
  /\ UNCHANGED <<envAssistantId, assistantId, nAssistants, threads, runs, san, ttsEnv, tts, trn, page>>

\* TimerFires for a promise at line 76 that nothing resolves: the frame
\* stays asleep.
TimerFiresNever(r) ==
  /\ req[r].pc = "sleep"
  /\ req[r].pc = "resolved"
  /\ req' = [req EXCEPT ![r] = LoopHead([@ EXCEPT !.attempts = @ + 1])]
  /\ UNCHANGED <<envAssistantId, assistantId, nAssistants, threads, runs, san, ttsEnv, tts, trn, page>>

\* Lines 76-80: the one-second timer fired.
TimerFires(r) ==
  /\ req[r].pc = "sleep"
  /\ req' = [req EXCEPT ![r] = LoopHead([@ EXCEPT !.attempts = @ + 1])]
  /\ UNCHANGED <<envAssistantId, assistantId, nAssistants, threads, runs, san, ttsEnv, tts, trn, page>>

\* Lines 143-155: runs.steps.list returned.
StepsListReturns(r, lists) ==
  /\ req[r].pc = "steps.list"
  /\ \E steps \in lists :
       req' = [req EXCEPT ![r] =
         Issue([@ EXCEPT !.toolsUsed = ToolsUsed(steps)], "messages.list")]
  /\ UNCHANGED <<envAssistantId, assistantId, nAssistants, threads, runs, san, ttsEnv, tts, trn, page>>

StepsListReturn(r) == StepsListReturns(r, StepLists)

\* MessagesListReturn without the test of line 163: reading the content of a
\* message that was not found throws.
MessagesListReturnUnguarded(r) ==
  /\ req[r].pc = "messages.list"
  /\ LET data == threads[req[r].threadId[2]]
         m == FirstAssistantMessage(data)
         content == IF m = 0 THEN <<>> ELSE data[m].content
         t == FirstTextBlock(content)
         f == req[r]
     IN req' = [req EXCEPT ![r] =
          IF m = 0
          THEN Catch(f, [kind |-> "TypeError", status |-> 0,
                         message |-> <<"Cannot read properties of undefined">>])
          ELSE IF t = 0 THEN Respond([f EXCEPT !.responseText = FALLBACK])
          ELSE Respond([f EXCEPT !.responseText = CleanCitationMarkers(content[t].value)])]
  /\ UNCHANGED <<envAssistantId, assistantId, nAssistants, threads, runs, san, ttsEnv, tts, trn, page>>

\* Lines 155-187 and 85-97: messages.list returned; the answer is extracted.
MessagesListReturn(r) ==
  /\ req[r].pc = "messages.list"
  /\ LET data == threads[req[r].threadId[2]]
         m == FirstAssistantMessage(data)
         content == IF m = 0 THEN <<>> ELSE data[m].content
         t == FirstTextBlock(content)
         f == [req[r] EXCEPT !.answer =
                 IF m = 0 THEN NoMessage
                 ELSE [found |-> TRUE, run |-> data[m].run, content |-> content]]
     IN req' = [req EXCEPT ![r] =
          IF t = 0 THEN Respond([f EXCEPT !.responseText = FALLBACK])
          ELSE LET ids == FileIdArray(content[t].annotations, {})
                   g == [f EXCEPT !.responseText = content[t].value,
                                  !.annotations = content[t].annotations,
                                  !.fileIdArray = ids]
               IN IF ids = <<>>
                  THEN Respond([g EXCEPT !.responseText = CleanCitationMarkers(@)])
                  ELSE Issue(g, "files.retrieve")]
  /\ UNCHANGED <<envAssistantId, assistantId, nAssistants, threads, runs, san, ttsEnv, tts, trn, page>>

\* Lines 95-104 and 170-187: after the i-th files.retrieve, the next one is
\* issued, or the citation markers are cleaned and the response is sent.
AfterFile(f) ==
  IF Count(f, "files.retrieve") < Len(f.fileIdArray)
  THEN Issue(f, "files.retrieve")
  ELSE Respond([f EXCEPT !.responseText = CleanCitationMarkers(@)])

\* Lines 97-98: files.retrieve returned the file.
FilesRetrieveReturn(r) ==
  /\ req[r].pc = "files.retrieve"
  /\ LET i == Count(req[r], "files.retrieve")
     IN req' = [req EXCEPT ![r] =
          AfterFile([@ EXCEPT !.fileNames = Append(@, FileName(req[r].fileIdArray[i]))])]
  /\ UNCHANGED <<envAssistantId, assistantId, nAssistants, threads, runs, san, ttsEnv, tts, trn, page>>

\* FilesRetrieveFails without the try of lines 96-101: the failure reaches the
\* catch block of POST.
FilesRetrieveAborts(r) ==
  /\ req[r].pc = "files.retrieve"
  /\ LET i == Count(req[r], "files.retrieve")
     IN \E e \in ApiErrors :
          req' = [req EXCEPT ![r] =
            Catch([@ EXCEPT !.failedIds = @ \cup {req[r].fileIdArray[i]}], e)]
  /\ UNCHANGED <<envAssistantId, assistantId, nAssistants, threads, runs, san, ttsEnv, tts, trn, page>>

\* Lines 99-101: files.retrieve failed; the file is skipped.
FilesRetrieveFails(r) ==
  /\ req[r].pc = "files.retrieve"
  /\ LET i == Count(req[r], "files.retrieve")
     IN req' = [req EXCEPT ![r] =
          AfterFile([@ EXCEPT !.failedIds = @ \cup {req[r].fileIdArray[i]}])]
  /\ UNCHANGED <<envAssistantId, assistantId, nAssistants, threads, runs, san, ttsEnv, tts, trn, page>>

\* RemoteCallFails with a retry: the failed call is issued again.
RemoteCallRetried(r) ==
  /\ req[r].pc \in RemoteOps \ {"files.retrieve"}
  /\ req' = [req EXCEPT ![r] = Issue(@, req[r].pc)]
  /\ UNCHANGED <<envAssistantId, assistantId, nAssistants, threads, runs, san, ttsEnv, tts, trn, page>>

\* RemoteCallFails with the run-steps fetch in a try of its own: when it
\* fails the handler goes on to the messages fetch.
RemoteCallFailsStepsOptional(r) ==
  /\ req[r].pc \in RemoteOps \ {"files.retrieve"}
  /\ \E e \in ApiErrors :
       req' = [req EXCEPT ![r] =
         IF req[r].pc = "steps.list"
         THEN Issue([@ EXCEPT !.thrown = e, !.callsAtThrow = Len(req[r].calls)],
                    "messages.list")
         ELSE Catch(@, e)]
  /\ UNCHANGED <<envAssistantId, assistantId, nAssistants, threads, runs, san, ttsEnv, tts, trn, page>>

\* Any other awaited remote call fails: the catch block answers.
RemoteCallFails(r) ==
  /\ req[r].pc \in RemoteOps \ {"files.retrieve"}
  /\ \E e \in ApiErrors : req' = [req EXCEPT ![r] = Catch(@, e)]
  /\ UNCHANGED <<envAssistantId, assistantId, nAssistants, threads, runs, san, ttsEnv, tts, trn, page>>


-----------------------------------------------------------------------------
(* Spec: one chat request, arriving in a fresh process or after an earlier *)
(* turn, with the backend working on its run.                              *)

\* The runs there can be: the earlier turn's and one per request.
RunIds == 1..(NumReq + 1)

NoneArrived == \A q \in Reqs : req[q].pc = "idle"

Next ==
  \/ \E r \in Reqs :
       \/ NoneArrived /\ POST(r)
       \/ AssistantsCreateReturn(r)
       \/ AssistantsRetrieveReturn(r)
       \/ ThreadsCreateReturn(r)
       \/ MessagesCreateReturn(r)
       \/ MessagesCreateNotFound(r)
       \/ RunsCreateReturn(r)
       \/ RunsRetrieveReturn(r)
       \/ TimerFires(r)
       \/ StepsListReturn(r)
       \/ MessagesListReturn(r)
       \/ FilesRetrieveReturn(r)
       \/ FilesRetrieveFails(r)
       \/ RemoteCallFails(r)
  \/ \E k \in RunIds :
       \/ BackendStarts(k)
       \/ BackendCompletes(k)
       \/ BackendFails(k)

Spec == ChatInit /\ [][Next]_vars

-----------------------------------------------------------------------------
(* ConcSpec: requests that overlap.  The handler is single-threaded between *)
(* awaits, so the pieces of different requests interleave at the awaits.    *)
(* Each request waits for its run MaxConcWaits times at most; the callers   *)
(* send a valid message with no thread id, an existing one or one that      *)
(* names no thread, and the answers are plain texts.                        *)

ConcBodies ==
  [parsable : {TRUE}, message : {MsgString(<<"h", "i">>)},
   threadId : {NULL, BOGUS} \cup {<<"thread", n>> : n \in 1..Len(threads)}]

ConcContents == { <<TextBlock(<<"O", "k">>, <<>>)>> }

ConcStepLists == { <<MessageStep, ToolStep(<<"file_search", "file_search">>)>> }

ConcPOST(r) == \E body \in ConcBodies : PostBody(r, body)

ConcBackendCompletes(k) == CompletesWith(k, ConcContents)

ConcStepsListReturn(r) == StepsListReturns(r, ConcStepLists)

ConcTimerFires(r) ==
  /\ req[r].attempts < MaxConcWaits
  /\ TimerFires(r)

ConcNext ==
  \/ \E r \in Reqs :
       \/ ConcPOST(r)
       \/ AssistantsCreateReturn(r)
       \/ AssistantsRetrieveReturn(r)
       \/ ThreadsCreateReturn(r)
       \/ MessagesCreateReturn(r)
       \/ MessagesCreateNotFound(r)
       \/ RunsCreateReturn(r)
       \/ RunsRetrieveReturn(r)
       \/ ConcTimerFires(r)
       \/ ConcStepsListReturn(r)
       \/ MessagesListReturn(r)
       \/ RemoteCallFails(r)
  \/ \E k \in RunIds :
       \/ BackendStarts(k)
       \/ ConcBackendCompletes(k)
       \/ BackendFails(k)

ConcSpec == ChatInit /\ [][ConcNext]_vars

-----------------------------------------------------------------------------
(* StallSpec: one request, as in Spec with the callers and answers of      *)
(* ConcSpec, where a run-state fetch may never return.  The event loop runs *)
(* every continuation that is ready and fires every timer that is due, the *)
(* backend decides every run, and every remote call that does not hang      *)
(* returns or fails.                                                        *)

\* Line 65: the promise of runs.retrieve never settles.  The timer of line 76
\* is not created before line 65 is done, so nothing is pending for the frame.
RunsRetrieveHangs(r) ==
  /\ req[r].pc = "runs.retrieve"
  /\ req' = [req EXCEPT ![r].pc = "hung"]
  /\ UNCHANGED <<envAssistantId, assistantId, nAssistants, threads, runs, san, ttsEnv, tts, trn, page>>

\* The steps of the handler for request r that the event loop is due to run.
HandlerStep(r) ==
  \/ AssistantsCreateReturn(r)
  \/ AssistantsRetrieveReturn(r)
  \/ ThreadsCreateReturn(r)
  \/ MessagesCreateReturn(r)
  \/ MessagesCreateNotFound(r)
  \/ RunsCreateReturn(r)
  \/ RunsRetrieveReturn(r)
  \/ TimerFires(r)
  \/ ConcStepsListReturn(r)
  \/ MessagesListReturn(r)
  \/ RemoteCallFails(r)

BackendStep(k) ==
  \/ BackendStarts(k)
  \/ ConcBackendCompletes(k)
  \/ BackendFails(k)

StallNext ==
  \/ \E r \in Reqs :
       \/ NoneArrived /\ ConcPOST(r)
       \/ HandlerStep(r)
       \/ RunsRetrieveHangs(r)
  \/ \E k \in RunIds : BackendStep(k)

StallSpec ==
  /\ ChatInit
  /\ [][StallNext]_vars
  /\ \A r \in Reqs : WF_vars(HandlerStep(r))
  /\ \A k \in RunIds : WF_vars(BackendStep(k))

\* C27: a request one of whose run-state fetches never returns still ends.
C27_StalledFetchSkipped ==
  \A r \in Reqs : (req[r].pc = "hung") ~> (req[r].pc = "done")

-----------------------------------------------------------------------------
(* FairSpec: one request, as in Spec with the callers of ConcSpec and       *)
(* answers with and without citations, where every remote call of the      *)
(* handler returns or fails and every timer fires: the event loop runs each *)
(* continuation that is ready.  Nothing is assumed of the backend, which    *)
(* may leave a run queued or in progress for ever.                          *)

CitedContents ==
  ConcContents \cup
    { <<TextBlock(<<"B", "[", "1", ":", "2", "+", "t", "]">>,
                  <<Cite("file_A"), Cite(""), Cite("file_C")>>)>> }

CitedBackendCompletes(k) == CompletesWith(k, CitedContents)

\* The steps of the handler for request r after the request has arrived.
Continuation(r) ==
  \/ HandlerStep(r)
  \/ FilesRetrieveReturn(r)
  \/ FilesRetrieveFails(r)

FairNext ==
  \/ \E r \in Reqs :
       \/ NoneArrived /\ ConcPOST(r)
       \/ Continuation(r)
  \/ \E k \in RunIds :
       \/ BackendStarts(k)
       \/ CitedBackendCompletes(k)
       \/ BackendFails(k)

FairSpec ==
  /\ ChatInit
  /\ [][FairNext]_vars
  /\ \A r \in Reqs : WF_vars(Continuation(r))

\* C31: every request that arrived ends, whatever the backend does with its
\* run; a request has a response exactly when it has ended, the response is a
\* success body or an error body, and once sent nothing of the request changes.
C31_EndsWithOneResponse ==
  /\ \A r \in Reqs : (req[r].pc # "idle") ~> (req[r].pc = "done")
  /\ [](\A r \in Reqs :
         /\ req[r].pc = "done" <=> req[r].response # NoResponse
         /\ req[r].pc = "done" =>
              (req[r].response.status = 200 <=> req[r].response.error = <<>>))
  /\ [][\A r \in Reqs : req[r].pc = "done" => req'[r] = req[r]]_vars

\* C31 witness: a request ended with the time-out after 60 polls, its run
\* still pending at the backend.
C31_Witness ==
  \E r \in Reqs :
    /\ req[r].pc = "done"
    /\ req[r].thrown = TimedOut
    /\ Count(req[r], "runs.retrieve") = maxAttempts
    /\ runs[req[r].runId].status \in {"queued", "in_progress"}
    /\ req[r].response.error # <<>>

-----------------------------------------------------------------------------
(* Properties of the chat endpoint, checked under Spec *)

Arrived(r) == req[r].pc # "idle"
Done(r) == req[r].pc = "done"
Polls(r) == Count(req[r], "runs.retrieve")
Waits(r) == Count(req[r], "setTimeout")
LastCall(r) == req[r].calls[Len(req[r].calls)]
IsRunFailed(err) == err.kind = "Error" /\ err.message[1] = "Run "
BlankMessage(m) == m.type = "string" /\ Trim(m.text) = <<>>

\* C1: a request whose message is empty or only whitespace is answered 400
\* without any remote call and without a change of the cached assistant id.
C1_BlankMessageRejected ==
  \A r \in Reqs :
    (Arrived(r) /\ BlankMessage(req[r].message)) =>
      /\ Done(r)
      /\ req[r].response.status = 400
      /\ req[r].calls = <<>>
      /\ assistantId = req[r].cacheAtEntry

\* C2: a request never fetches the run state more than 60 times; once a poll
\* has seen the run completed after k pending polls, the request has made
\* exactly k + 1 fetches (k < 60), each but the last followed by one wait,
\* it makes no further one, and it answers 200 unless a later call fails.
C2_PollsAsNeeded ==
  \A r \in Reqs :
    /\ Polls(r) <= maxAttempts
    /\ req[r].lastSeen = "completed" =>
         /\ Polls(r) = Waits(r) + 1
         /\ Waits(r) < maxAttempts
         /\ Waits(r) = req[r].attempts
         /\ Count(req[r], "steps.list") = 1
         /\ Done(r) /\ req[r].thrown = NoError => req[r].response.status = 200
    /\ req[r].response.status = 200 => req[r].lastSeen = "completed"

\* C2 witness: the run was pending on 59 polls and completed on the 60th, and
\* the request answered.
C2_Witness ==
  \E r \in Reqs :
    /\ Done(r) /\ req[r].response.status = 200
    /\ Waits(r) = maxAttempts - 1 /\ Polls(r) = maxAttempts

\* C3: the poll that sees the run failed, cancelled or expired ends the
\* request with the run error: that poll is the last call of the request, no
\* wait, steps fetch or messages fetch follows it and no second run is created.
C3_FailsAtOnce ==
  \A r \in Reqs :
    req[r].lastSeen \in {"failed", "cancelled", "expired"} =>
      /\ Done(r)
      /\ IsRunFailed(req[r].thrown)
      /\ req[r].thrown = RunError(runs[req[r].runId])
      /\ req[r].response.status = 500
      /\ LastCall(r) = "runs.retrieve"
      /\ Polls(r) = Waits(r) + 1
      /\ Count(req[r], "steps.list") = 0
      /\ Count(req[r], "messages.list") = 0
      /\ Count(req[r], "runs.create") = 1

\* C3 witness: a run seen expired after some pending polls, long before the cap.
C3_Witness ==
  \E r \in Reqs :
    /\ Done(r) /\ req[r].lastSeen = "expired"
    /\ Waits(r) = 3

\* C4: the request ends with the time-out error exactly when 60 polls have
\* each seen the run pending: never earlier, and never after a poll that saw
\* the run completed, failed, cancelled or expired.
C4_TimeoutAfterSixty ==
  \A r \in Reqs :
    /\ req[r].thrown = TimedOut =>
         /\ Done(r)
         /\ Polls(r) = maxAttempts /\ Waits(r) = maxAttempts
         /\ req[r].lastSeen \in {"queued", "in_progress"}
         /\ Count(req[r], "steps.list") = 0
    /\ (Waits(r) = maxAttempts /\ req[r].pc # "sleep") => req[r].thrown = TimedOut

\* C4 witness: a request that timed out.
C4_Witness ==
  \E r \in Reqs : Done(r) /\ req[r].thrown = TimedOut /\ req[r].response.status = 500

Succeeded(r) == Done(r) /\ req[r].response.status = 200

\* The distinct document ids an annotation list cites.
CitedIds(annotations) ==
  { annotations[i].file_id :
      i \in { j \in 1..Len(annotations) :
                annotations[j].type = "file_citation" /\ annotations[j].file_id # "" } }

Occurrences(seq, x) == Cardinality({i \in 1..Len(seq) : seq[i] = x})

\* C11: a request looks up each distinct cited document id exactly once,
\* however many citations name it, and nothing else: the number of lookups is
\* the number of distinct cited ids, each cited id is looked up once, and the
\* sources of the answer hold one name per cited id whose lookup succeeded;
\* annotations that are no file citation or carry no file id add nothing.
C11_EachCitedIdLookedUpOnce ==
  \A r \in Reqs :
    LET ids == CitedIds(req[r].annotations)
        f == req[r]
    IN /\ Count(f, "files.retrieve") <= Cardinality(ids)
       /\ \A i \in 1..Len(f.fileIdArray) : f.fileIdArray[i] \in ids
       /\ Succeeded(r) =>
            /\ Count(f, "files.retrieve") = Cardinality(ids)
            /\ \A id \in ids : Occurrences(f.fileIdArray, id) = 1
            /\ Len(f.response.sources) = Cardinality(ids \ f.failedIds)
            /\ \A id \in ids \ f.failedIds :
                 Occurrences(f.response.sources, FileName(id)) >= 1

\* C11 witness: an answer whose annotations cite file_A twice and file_B once,
\* next to an annotation that is no citation; both names are listed once.
C11_Witness ==
  \E r \in Reqs :
    /\ Succeeded(r)
    /\ Occurrences(req[r].annotations, Cite("file_A")) = 2
    /\ Occurrences(req[r].annotations, PathAnnotation) = 1
    /\ Count(req[r], "files.retrieve") = 2
    /\ req[r].response.sources = <<"Title A", "Title B">>

\* C13: when an assistant id is configured, a request issues no
\* assistants.create and no assistants.retrieve, leaves the cached id as it
\* found it, and creates its run with exactly the configured id, whether or
\* not an id was cached before.
C13_ConfiguredHandleUsed ==
  envAssistantId # NULL =>
    \A r \in Reqs :
      /\ Count(req[r], "assistants.create") = 0
      /\ Count(req[r], "assistants.retrieve") = 0
      /\ Arrived(r) => assistantId = req[r].cacheAtEntry
      /\ req[r].calls # <<>> => req[r].asstId = envAssistantId
      /\ req[r].runId # 0 => runs[req[r].runId].assistant_id = envAssistantId

\* C13 witness: an id is configured while another one is cached, and a request
\* has been answered from a run of the configured assistant.
C13_Witness ==
  \E r \in Reqs :
    /\ envAssistantId = ENVID
    /\ assistantId = <<"asst", 1>>
    /\ Succeeded(r)
    /\ runs[req[r].runId].assistant_id = ENVID

\* The caller sent a thread id (null, undefined and "" are none).
Supplied(r) == ~FalsyId(req[r].existingThreadId)

\* The message of request r is the newest entry of thread t, or the newest but
\* for the answer of r's own run.
UserMessageOn(r, t) ==
  /\ ThreadExists(t)
  /\ LET log == threads[t[2]]
         mine == [role |-> "user", run |-> 0,
                  content |-> <<TextBlock(req[r].message.text, <<>>)>>]
     IN \/ Len(log) >= 1 /\ log[1] = mine
        \/ /\ Len(log) >= 2 /\ log[2] = mine
           /\ log[1].role = "assistant" /\ log[1].run = req[r].runId

\* C16: a request that carries a thread id issues no threads.create, appends
\* its message to that thread, creates its run on it and answers with that id;
\* a request that carries none issues exactly one threads.create before its
\* message is appended, works on the thread so created, which holds nothing
\* but this request's turn, and answers with the id of that thread.
C16_ThreadResolved ==
  \A r \in Reqs :
    LET f == req[r]
        appending == Count(f, "messages.create") >= 1
    IN /\ Supplied(r) =>
            /\ Count(f, "threads.create") = 0
            /\ appending => f.threadId = f.existingThreadId
            /\ f.runId # 0 =>
                 /\ runs[f.runId].thread_id = f.existingThreadId
                 /\ UserMessageOn(r, f.existingThreadId)
            /\ Succeeded(r) => f.response.threadId = f.existingThreadId
       /\ (Arrived(r) /\ ~Supplied(r)) =>
            /\ Count(f, "threads.create") <= 1
            /\ appending =>
                 /\ Count(f, "threads.create") = 1
                 /\ f.threadId = <<"thread", Len(threads)>>
            /\ f.runId # 0 =>
                 /\ runs[f.runId].thread_id = f.threadId
                 /\ UserMessageOn(r, f.threadId)
            /\ Succeeded(r) =>
                 /\ f.response.threadId = f.threadId
                 /\ \A i \in 1..Len(threads[f.threadId[2]]) :
                      LET m == threads[f.threadId[2]][i]
                      IN \/ m.role = "assistant" /\ m.run = f.runId
                         \/ m.role = "user" /\ i = Len(threads[f.threadId[2]])

\* C16 witness: a request sent on the thread of the earlier turn was answered
\* with that thread id, and no thread was created.
C16_Witness ==
  \E r \in Reqs :
    /\ Succeeded(r)
    /\ req[r].existingThreadId = <<"thread", 1>>
    /\ req[r].response.threadId = <<"thread", 1>>
    /\ Len(threads) = 1
    /\ Len(threads[1]) >= 4

\* The place of a call in the handler: handle resolution, thread resolution,
\* message append, run creation, polling, steps fetch, messages fetch, lookups.
CallRank(op) ==
  CASE op = "assistants.create" -> 1
    [] op = "assistants.retrieve" -> 2
    [] op = "threads.create" -> 3
    [] op = "messages.create" -> 4
    [] op = "runs.create" -> 5
    [] op \in {"runs.retrieve", "setTimeout"} -> 6
    [] op = "steps.list" -> 7
    [] op = "messages.list" -> 8
    [] op = "files.retrieve" -> 9

\* Run k is the run of the earlier turn, whose answer is on thread 1.
IsEarlierRun(k) ==
  /\ k = 1
  /\ \A q \in Reqs : req[q].runId # 1
  /\ \E i \in 1..Len(threads[1]) :
       threads[1][i].role = "assistant" /\ threads[1][i].run = 1

\* Every run but the earlier turn's was created by a request, after that
\* request's message append and on the thread of that append.
RunsFollowAppends ==
  \A k \in 1..Len(runs) :
    \/ IsEarlierRun(k)
    \/ \E q \in Reqs :
         /\ req[q].runId = k
         /\ Count(req[q], "messages.create") = 1
         /\ Count(req[q], "runs.create") = 1
         /\ runs[k].thread_id = req[q].threadId

\* C17: the calls of a request are issued in the order handle resolution,
\* thread resolution, message append, run creation, polling, messages fetch;
\* each of these but polling is issued once at most; only the call issued
\* last is awaited; run creation follows directly on the message append, whose
\* message is then on the thread; and a request whose message append failed
\* has created no run.
C17_CallsInOrder ==
  /\ RunsFollowAppends
  /\ \A r \in Reqs :
    LET f == req[r]
        n == Len(f.calls)
    IN /\ \A i \in 1..(n - 1) : CallRank(f.calls[i]) <= CallRank(f.calls[i + 1])
       /\ \A op \in RemoteOps \ {"runs.retrieve", "files.retrieve"} : Count(f, op) <= 1
       /\ f.pc \in RemoteOps => f.calls[n] = f.pc
       /\ f.pc = "sleep" => f.calls[n] = "setTimeout"
       /\ \A i \in 1..n :
            f.calls[i] = "runs.create" => i > 1 /\ f.calls[i - 1] = "messages.create"
       /\ Count(f, "runs.create") = 1 => UserMessageOn(r, f.threadId)
       /\ Count(f, "messages.list") = 1 =>
            f.lastSeen = "completed" /\ runs[f.runId].status = "completed"
       /\ (Done(r) /\ f.thrown # NoError /\ n >= 1 /\ f.calls[n] = "messages.create") =>
            Count(f, "runs.create") = 0 /\ f.runId = 0

\* C17 witness: a request in a fresh process went through every stage in turn
\* and was answered.
C17_Witness ==
  \E r \in Reqs :
    /\ Succeeded(r)
    /\ req[r].calls =
         << "assistants.create", "assistants.retrieve", "threads.create",
            "messages.create", "runs.create", "runs.retrieve", "setTimeout",
            "runs.retrieve", "steps.list", "messages.list" >>

\* C17 witness of the failing append: the message append of a request failed
\* and the request ended without a run.
C17_AppendFailed ==
  \E r \in Reqs :
    /\ Done(r) /\ req[r].thrown \in ApiErrors \cup {NotFound}
    /\ req[r].calls[Len(req[r].calls)] = "messages.create"

\* C18: the error string answered for a run that ended failed, cancelled or
\* expired holds the reason the backend reported for it, and differs from the
\* error string answered for a time-out.
C18_RunFailureReasonDelivered ==
  \A r \in Reqs :
    (Done(r) /\ IsRunFailed(req[r].thrown)) =>
      LET reason == runs[req[r].runId].last_error
          error == req[r].response.error
      IN /\ reason # "" => \E i \in 1..Len(error) : error[i] = reason
         /\ error # ErrorResponse(TimedOut).error

Is2xx(n) == n >= 200 /\ n <= 299

\* C19: a request that failed is answered with an error string, no answer text
\* and a status outside 200..299: the upstream status when the failed remote
\* call exposes one, else 500 (a remote failure without status, a failed run,
\* a time-out, an unparsable body); an answer with a 2xx status is given only
\* when nothing was thrown.
C19_FailureStatus ==
  \A r \in Reqs :
    LET err == req[r].thrown
        res == req[r].response
    IN /\ (Done(r) /\ err # NoError) =>
            /\ ~Is2xx(res.status)
            /\ res.error # <<>> /\ res.response = <<>> /\ res.sources = <<>>
            /\ (err.kind = "APIError" /\ err.status # 0) => res.status = err.status
            /\ (err.kind = "APIError" /\ err.status = 0) => res.status = 500
            /\ err.kind # "APIError" => res.status = 500
       /\ (Done(r) /\ Is2xx(res.status)) => err = NoError /\ res.error = <<>>
       /\ (Done(r) /\ err = NoError /\ ~Is2xx(res.status)) => res = BadRequest
       /\ req[r].lastSeen \in {"failed", "cancelled", "expired"} =>
            Done(r) /\ res.status = 500
       /\ (Waits(r) = maxAttempts /\ req[r].pc # "sleep") => Done(r) /\ res.status = 500

\* C19 witness: a remote call failed with upstream status 429 and the request
\* was answered 429.
C19_Witness ==
  \E r \in Reqs :
    /\ Done(r)
    /\ req[r].thrown.kind = "APIError" /\ req[r].thrown.status = 429
    /\ req[r].response.status = 429

\* The names of the ids outside failed, in the order of ids.
RECURSIVE NamesOutside(_, _)
NamesOutside(ids, failed) ==
  IF ids = <<>> THEN <<>>
  ELSE (IF Head(ids) \in failed THEN <<>> ELSE <<FileName(Head(ids))>>)
         \o NamesOutside(Tail(ids), failed)

\* The index of the first citation of id in an annotation list.
FirstCitation(annotations, id) ==
  CHOOSE i \in 1..Len(annotations) :
    /\ annotations[i] = Cite(id)
    /\ \A j \in 1..(i - 1) : annotations[j] # Cite(id)

\* C20: a request that has started its citation lookups is answered 200
\* whichever of them fail, and its sources are the names of exactly the cited
\* ids whose lookup did not fail, in the order the ids are first cited: none
\* when every lookup failed.
C20_LookupFailuresSkipped ==
  \A r \in Reqs :
    LET f == req[r]
        ids == f.fileIdArray
    IN /\ f.failedIds \subseteq CitedIds(f.annotations)
       /\ (Done(r) /\ Count(f, "files.retrieve") >= 1) => Succeeded(r)
       /\ Succeeded(r) =>
            /\ f.response.sources = NamesOutside(ids, f.failedIds)
            /\ \A i, j \in 1..Len(ids) :
                 i < j => FirstCitation(f.annotations, ids[i]) < FirstCitation(f.annotations, ids[j])
            /\ f.failedIds = CitedIds(f.annotations) => f.response.sources = <<>>

\* C20 witness: of two cited documents the lookup of the first failed and the
\* answer lists the second alone.
C20_Witness ==
  \E r \in Reqs :
    /\ Succeeded(r)
    /\ req[r].fileIdArray = <<"file_A", "file_B">>
    /\ req[r].failedIds = {"file_A"}
    /\ req[r].response.sources = <<"Title B">>

\* C20 witness of the extreme case: every lookup failed and the answer lists
\* no source.
C20_AllFailed ==
  \E r \in Reqs :
    /\ Succeeded(r)
    /\ req[r].failedIds = {"file_A", "file_B"}
    /\ req[r].response.sources = <<>>

\* The fixed text answered when no answer text was found.
FallbackText == <<"I could not formulate a response. Please try again.">>

HasAssistantMessage(log) == \E i \in 1..Len(log) : log[i].role = "assistant"

\* The messages fetch of request r has returned.
Listed(r) == Count(req[r], "messages.list") = 1 /\ req[r].pc # "messages.list"

\* C21: a request whose messages fetch returned a list without any message
\* of the assistant is answered 200 with the fixed fallback text, no sources
\* and the id of its thread.
C21_FallbackWhenNoAssistantMessage ==
  \A r \in Reqs :
    (Listed(r) /\ req[r].thrown \notin ApiErrors
       /\ ~HasAssistantMessage(threads[req[r].threadId[2]])) =>
      /\ Succeeded(r)
      /\ req[r].response.response = FallbackText
      /\ req[r].response.sources = <<>>
      /\ req[r].response.threadId = req[r].threadId
      /\ req[r].response.threadId # NULL

\* C21 witness: a run completed without leaving a message on a new thread and
\* the request was answered with the fallback text.
C21_Witness ==
  \E r \in Reqs :
    /\ Succeeded(r)
    /\ req[r].lastSeen = "completed"
    /\ ~HasAssistantMessage(threads[req[r].threadId[2]])
    /\ req[r].response.response = FallbackText

\* The text blocks of a content, in order.
TextBlocks(content) == SelectSeq(content, LAMBDA c : c.type = "text")

\* C22: the text of a successful answer is that of the first text block of
\* the selected message, cleaned, whatever blocks precede it, and it is the
\* fallback text when the message has no content, no text block or an empty
\* text: a successful answer never has an empty text.
C22_TextOrFallback ==
  \A r \in Reqs :
    Succeeded(r) =>
      LET texts == TextBlocks(req[r].answer.content)
          text == req[r].response.response
      IN /\ text # <<>>
         /\ (texts = <<>> \/ texts[1].value = <<>>) => text = FallbackText
         /\ (texts # <<>> /\ texts[1].value # <<>>) =>
              text = CleanCitationMarkers(texts[1].value)

\* C23: the text of a successful answer is taken from a message produced by
\* the run the request created, never from a message of another run.
C23_AnswerFromOwnRun ==
  \A r \in Reqs :
    (Succeeded(r) /\ req[r].answer.found) => req[r].answer.run = req[r].runId

\* C24: the tool kinds reported with a successful answer are pairwise
\* distinct.
C24_ToolKindsDistinct ==
  \A r \in Reqs :
    Succeeded(r) =>
      \A i, j \in 1..Len(req[r].response.toolsUsed) :
        i # j => req[r].response.toolsUsed[i] # req[r].response.toolsUsed[j]

\* The answer text of request r has been extracted (line 166).
Extracted(r) == Listed(r) /\ TextBlocks(req[r].answer.content) # <<>>

\* C25: the chat handler attempts no speech synthesis, and a request whose
\* answer text has been extracted has only citation lookups left to await and
\* is answered 200 with that text, cleaned: no outcome of a synthesis can turn
\* its response into an error body.
C25_TextWithoutSynthesis ==
  \A r \in Reqs :
    /\ \A i \in 1..Len(req[r].calls) : req[r].calls[i] \in RemoteOps \cup {"setTimeout"}
    /\ Extracted(r) =>
         /\ req[r].pc \in {"files.retrieve", "done"}
         /\ Done(r) =>
              /\ Succeeded(r)
              /\ req[r].response.error = <<>>
              /\ req[r].response.response =
                   CleanCitationMarkers(TextBlocks(req[r].answer.content)[1].value)

\* C25 witness: an answer text was extracted and answered, with citations
\* looked up and no synthesis attempted.
C25_Witness ==
  \E r \in Reqs :
    /\ Succeeded(r) /\ Extracted(r)
    /\ req[r].response.response = <<"A", ".">>
    /\ tts.pc = "idle" /\ tts.calls = <<>>

\* C28: a request issues each of assistants.create, threads.create,
\* messages.create, runs.create, steps.list and messages.list once at most,
\* fetches the run state once per attempt, and the remote call that fails
\* (citation lookups aside) is its last call: the request is answered with an
\* error and no call is issued after the failure.
C28_NoRetry ==
  \A r \in Reqs :
    LET f == req[r]
    IN /\ \A op \in RemoteOps \ {"runs.retrieve", "files.retrieve"} : Count(f, op) <= 1
       /\ Polls(r) <= Waits(r) + 1
       /\ Count(f, "files.retrieve") <= Len(f.fileIdArray)
       /\ f.thrown # NoError =>
            /\ Done(r)
            /\ ~Is2xx(f.response.status) /\ f.response.error # <<>>
            /\ Len(f.calls) = f.callsAtThrow
       /\ f.thrown \in ApiErrors \cup {NotFound} =>
            /\ f.calls # <<>>
            /\ Count(f, f.calls[Len(f.calls)]) = 1 \/ f.calls[Len(f.calls)] = "runs.retrieve"
            /\ f.calls[Len(f.calls)] # "files.retrieve"

\* C28 witness: the run creation of a request failed and the request ended
\* with the error, having issued that call once.
C28_Witness ==
  \E r \in Reqs :
    /\ Done(r) /\ req[r].thrown \in ApiErrors
    /\ req[r].calls[Len(req[r].calls)] = "runs.create"
    /\ Count(req[r], "runs.create") = 1
    /\ req[r].response.status = 429

\* C12: the sources of a successful answer hold no name twice.
C12_SourcesUnique ==
  \A r \in Reqs :
    Succeeded(r) =>
      \A i, j \in 1..Len(req[r].response.sources) :
        i # j => req[r].response.sources[i] # req[r].response.sources[j]

\* The run-steps fetch of request r failed.
StepsFetchFailed(r) ==
  /\ req[r].thrown \in ApiErrors
  /\ req[r].calls[req[r].callsAtThrow] = "steps.list"

\* C32: when the run-steps fetch fails, the run was seen completed and is
\* completed at the backend, the response is an error body without answer
\* text, sources or thread id, and no messages fetch was issued.
C32_StepsFailureLosesAnswer ==
  \A r \in Reqs : StepsFetchFailed(r) =>
    /\ Done(r)
    /\ req[r].lastSeen = "completed"
    /\ runs[req[r].runId].status = "completed"
    /\ ~Is2xx(req[r].response.status)
    /\ req[r].response.error = <<"OpenAI API Error: ">> \o req[r].thrown.message
    /\ req[r].response.response = <<>>
    /\ req[r].response.sources = <<>>
    /\ req[r].response.threadId = NULL
    /\ Count(req[r], "messages.list") = 0
    /\ Count(req[r], "steps.list") = 1

\* C32 witness: the run-steps fetch failed while the thread holds a text
\* answer produced by the request's own run.
C32_Witness ==
  \E r \in Reqs :
    /\ StepsFetchFailed(r)
    /\ LET data == threads[req[r].threadId[2]]
           m == FirstAssistantMessage(data)
       IN /\ m # 0
          /\ data[m].run = req[r].runId
          /\ FirstTextBlock(data[m].content) # 0

-----------------------------------------------------------------------------
(* Properties of overlapping requests, checked under ConcSpec *)

\* C14: with no assistant id configured, at most one assistants.create call
\* succeeds in the life of the process.
C14_CreatedAtMostOnce ==
  envAssistantId = NULL => nAssistants <= 1

\* C15: with no assistant id configured, all runs of the process are created
\* with one assistant id, and the id a request creates its run with is the one
\* it created itself or the one that was cached when it arrived.
C15_HandleReused ==
  envAssistantId = NULL =>
    \A r \in Reqs :
      req[r].runId # 0 =>
        LET h == runs[req[r].runId].assistant_id
        IN /\ h \in {req[r].created, req[r].cacheAtEntry} \ {NULL}
           /\ \A k \in 1..Len(runs) : runs[k].assistant_id = h

\* Each request that has created a run has a run of its own, on the thread it
\* holds.
OwnRuns ==
  \A r \in Reqs :
    req[r].runId # 0 =>
      /\ runs[req[r].runId].thread_id = req[r].threadId
      /\ \A q \in Reqs \ {r} : req[q].runId # req[r].runId

\* Requests that carried no thread id hold pairwise distinct threads, each
\* created by the request that holds it.
OwnThreads ==
  \A r \in Reqs :
    (~Supplied(r) /\ req[r].threadId # NULL) =>
      /\ \A q \in Reqs \ {r} : ~Supplied(q) => req[q].threadId # req[r].threadId
      /\ Count(req[r], "threads.create") = 1

\* C29: with requests in flight together, each polls the run it created, on
\* the thread it created it on; requests that carried no thread id work on
\* pairwise distinct threads; and no request is answered with the message of
\* another request's run.  The last part is stated for the executions in
\* which no request appended its message or created its run while a run was
\* active on its thread.
C29_RequestsIsolated ==
  /\ OwnRuns
  /\ OwnThreads
  /\ (\A q \in Reqs : ~req[q].raced) =>
       \A r \in Reqs :
         (Succeeded(r) /\ req[r].answer.found) =>
           \A q \in Reqs \ {r} : req[q].runId = 0 \/ req[r].answer.run # req[q].runId

\* The remote call of request r that failed last, "" when none did.
FailedCall(r) ==
  IF Done(r) /\ req[r].thrown \in ApiErrors \cup {NotFound}
  THEN req[r].calls[Len(req[r].calls)] ELSE ""

\* C30: the cached assistant id is set exactly when some assistants.create
\* has succeeded and is then the id one of them returned, so it is never
\* empty again; a request issues assistants.create once at most and has
\* written the cache exactly when that call succeeded; a request whose create
\* failed has written nothing, and a request that arrives with nothing cached
\* and nothing configured starts with assistants.create; a request whose
\* verification fetch failed ends with an error and leaves the id cached.
C30_CacheWrittenOnCreate ==
  /\ assistantId # NULL <=> nAssistants >= 1
  /\ assistantId # NULL => assistantId \in {<<"asst", n>> : n \in 1..nAssistants}
  /\ \A r \in Reqs :
       LET f == req[r]
       IN /\ Count(f, "assistants.create") <= 1
          /\ f.created # NULL <=> Count(f, "assistants.retrieve") = 1
          /\ f.created # NULL => f.cacheAtEntry = NULL /\ assistantId # NULL
          /\ FailedCall(r) = "assistants.create" =>
               /\ f.created = NULL
               /\ assistantId = NULL <=> nAssistants = 0
          /\ (envAssistantId = NULL /\ f.cacheAtEntry = NULL /\ f.calls # <<>>) =>
               f.calls[1] = "assistants.create"
          /\ FailedCall(r) = "assistants.retrieve" =>
               /\ ~Is2xx(f.response.status)
               /\ f.created # NULL /\ assistantId # NULL

\* C30 witness: the create of one request failed and left the cache empty;
\* the next request created the assistant, its verification fetch failed, and
\* the id it created is cached.
C30_Witness ==
  \E r, q \in Reqs :
    /\ FailedCall(r) = "assistants.create"
    /\ req[q].cacheAtEntry = NULL
    /\ FailedCall(q) = "assistants.retrieve"
    /\ assistantId = req[q].created

-----------------------------------------------------------------------------
(* SanitizerSpec: the citation-marker clean-up applied to a text, and to   *)
(* its own result.                                                         *)

Marker == <<"[", "4", ":", "0", "+", "s", "]">>

\* The pieces texts are put together from: single characters, a marker, the
\* two halves of a marker, and markers lacking the colon, the dagger or the
\* closing bracket.
Pieces ==
  { <<"[">>, <<"]">>, <<"4">>, <<":">>, <<"+">>, <<"a">>, <<" ">>,
    Marker,
    <<"[", "4", ":">>, <<"0", "+", "b", "]">>,
    <<"[", "4", "0", "+", "s", "]">>,
    <<"[", "4", ":", "0", "s", "]">>,
    <<"[", "4", ":", "0", "+", "s">> }

RECURSIVE Compose(_)
Compose(n) ==
  IF n = 0 THEN {<<>>}
  ELSE LET shorter == Compose(n - 1)
       IN shorter \cup {t \o p : t \in shorter, p \in Pieces}

SanTexts == Compose(MaxPieces)

ChatIdle ==
  /\ envAssistantId = NULL
  /\ assistantId = NULL
  /\ nAssistants = 0
  /\ threads = <<>>
  /\ runs = <<>>
  /\ req = [r \in Reqs |-> Frame0]

SanInit ==
  /\ ChatIdle
  /\ san \in {[SanIdle EXCEPT !.pc = "input", !.text = t] : t \in SanTexts}
  /\ ttsEnv = TtsEnvIdle
  /\ tts = TtsIdle
  /\ trn = TrnIdle
  /\ page = PageIdle

CleanOnce ==
  /\ san.pc = "input"
  /\ san' = [san EXCEPT !.pc = "once", !.once = CleanCitationMarkers(san.text)]
  /\ UNCHANGED <<chatVars, ttsEnv, tts, trn, page>>

CleanTwice ==
  /\ san.pc = "once"
  /\ san' = [san EXCEPT !.pc = "twice", !.twice = CleanCitationMarkers(san.once)]
  /\ UNCHANGED <<chatVars, ttsEnv, tts, trn, page>>

SanNext == CleanOnce \/ CleanTwice

SanitizerSpec == SanInit /\ [][SanNext]_vars

\* t[i..j] is a citation marker: an opening bracket, digits, a colon, digits,
\* a dagger, any characters but the closing bracket, the closing bracket.
IsMarker(t, i, j) ==
  /\ t[i] = "["
  /\ t[j] = "]"
  /\ \E p \in (i + 2)..(j - 3) :
       /\ t[p] = ":"
       /\ \A k \in (i + 1)..(p - 1) : IsDigit(t[k])
       /\ \E q \in (p + 2)..(j - 1) :
            /\ t[q] = "+"
            /\ \A k \in (p + 1)..(q - 1) : IsDigit(t[k])
            /\ \A k \in (q + 1)..(j - 1) : t[k] # "]"

MarkerSpans(t) ==
  {ij \in (1..Len(t)) \X (1..Len(t)) : IsMarker(t, ij[1], ij[2])}

HasMarker(t) == MarkerSpans(t) # {}

\* t with every character that lies in a marker deleted.
RECURSIVE KeepOutside(_, _, _)
KeepOutside(t, spans, n) ==
  IF n > Len(t) THEN <<>>
  ELSE (IF \E ij \in spans : ij[1] <= n /\ n <= ij[2] THEN <<>> ELSE <<t[n]>>)
         \o KeepOutside(t, spans, n + 1)

WithoutMarkers(t) == KeepOutside(t, MarkerSpans(t), 1)

\* C5: the clean-up is idempotent: cleaning a cleaned text changes nothing,
\* and a cleaned text holds no citation marker.
C5_Idempotent ==
  /\ san.pc = "twice" => san.twice = san.once
  /\ san.pc \in {"once", "twice"} => ~HasMarker(san.once)

\* C6: the cleaned text is the input with exactly the characters of its
\* citation markers deleted; all other characters are kept in their order.
C6_DeletesExactlyMarkers ==
  san.pc \in {"once", "twice"} => san.once = WithoutMarkers(san.text)

\* C6 witness: two adjacent markers followed by text.
C6_Witness ==
  /\ san.pc = "once"
  /\ san.text = Marker \o Marker \o <<"a">>
  /\ san.once = <<"a">>

\* C7: a text that holds no citation marker is returned unchanged.
C7_NoMarkerUnchanged ==
  (san.pc \in {"once", "twice"} /\ ~HasMarker(san.text)) => san.once = san.text

\* C7 witness: markers lacking the colon, the dagger and the closing bracket.
C7_Witness ==
  /\ san.pc = "once"
  /\ san.text = <<"[", "4", "0", "+", "s", "]">> \o <<"[", "4", ":", "0", "s", "]">>
                  \o <<"[", "4", ":", "0", "+", "s">>
  /\ san.once = san.text

-----------------------------------------------------------------------------
(* TtsSpec: one call of synthesizeSpeech (src/lib/tts)                     *)

\* The provider argument left out.
UNDEFINED == "<undefined>"

ProviderInputs ==
  {UNDEFINED, "openai", "elevenlabs", "azure", "", "toString", "__proto__"}

Registered == {"openai", "elevenlabs"}

\* providers[provider], index.ts lines 22-25 and 37: an own property of the
\* object literal, or what the literal inherits from Object.prototype.
Providers(provider) ==
  CASE provider = "openai" -> "synthesizeWithOpenAI"
    [] provider = "elevenlabs" -> "synthesizeWithElevenLabs"
    [] provider = "toString" -> "Object.prototype.toString"
    [] provider = "__proto__" -> "Object.prototype"
    [] OTHER -> "undefined"

TtsAlphabet == <<"a", "b", "c", "d", "e", "f", "g">>
MkText(n) == [i \in 1..n |-> TtsAlphabet[(i % 7) + 1]]

TtsLens ==
  { 0, 1, maxLength - 3, maxLength - 1, maxLength, maxLength + 1, maxLength + 2,
    MaxTtsLen }

TtsTexts == {MkText(n) : n \in TtsLens}

TtsThrow(f, message) ==
  [f EXCEPT !.pc = "done", !.result = [kind |-> "error", value |-> message]]

\* Truncated with the test at the limit itself (>=).
TruncatedAtLimit(text) ==
  IF Len(text) >= maxLength
  THEN SubSeq(text, 1, maxLength - 3) \o <<".", ".", ".">>
  ELSE text

\* openai.ts lines 28-31: truncatedText.
Truncated(text) ==
  IF Len(text) > maxLength
  THEN SubSeq(text, 1, maxLength - 3) \o <<".", ".", ".">>
  ELSE text

\* openai.ts lines 26-38: up to the await of audio.speech.create.
SynthesizeWithOpenAI(f, text) ==
  [f EXCEPT !.backend = "synthesizeWithOpenAI",
            !.pc = "audio.speech.create",
            !.calls = Append(@, [to |-> "api.openai.com", input |-> Truncated(text)])]

\* elevenlabs.ts (src/unnamed/part_003) lines 27-58: up to the await of fetch.
SynthesizeWithElevenLabs(f, text) ==
  LET g == [f EXCEPT !.backend = "synthesizeWithElevenLabs"] IN
  IF ~ttsEnv.ELEVENLABS_API_KEY
  THEN TtsThrow(g, <<"ElevenLabs API key not configured. ">>)
  ELSE [g EXCEPT !.pc = "fetch",
                 !.calls = Append(@, [to |-> "api.elevenlabs.io", input |-> text])]

\* The module loads with its credentials present or absent.  openai.ts builds
\* its client at load time (lines 10-12); with the key absent the client
\* library may refuse to build it, and then the module does not load.
TtsInit ==
  /\ ChatIdle
  /\ san = SanIdle
  /\ ttsEnv \in [OPENAI_API_KEY : BOOLEAN, ELEVENLABS_API_KEY : BOOLEAN, loaded : BOOLEAN]
  /\ ttsEnv.OPENAI_API_KEY => ttsEnv.loaded
  /\ tts = TtsIdle
  /\ trn = TrnIdle
  /\ page = PageIdle

\* index.ts lines 33-44: synthesizeSpeech(text, provider).
SynthesizeSpeech ==
  /\ tts.pc = "idle"
  /\ ttsEnv.loaded
  /\ \E name \in ProviderInputs, text \in TtsTexts :
       LET provider == IF name = UNDEFINED THEN "openai" ELSE name
           synthesizer == Providers(provider)
           f == [tts EXCEPT !.provider = name, !.text = text]
       IN tts' =
            CASE synthesizer = "undefined" ->
                   TtsThrow(f, <<"Unknown TTS provider: ", provider>>)
              [] synthesizer = "synthesizeWithOpenAI" -> SynthesizeWithOpenAI(f, text)
              [] synthesizer = "synthesizeWithElevenLabs" -> SynthesizeWithElevenLabs(f, text)
              [] synthesizer = "Object.prototype.toString" ->
                   [f EXCEPT !.pc = "done", !.backend = synthesizer,
                             !.result = [kind |-> "value", value |-> <<"[object Undefined]">>]]
              [] synthesizer = "Object.prototype" ->
                   TtsThrow(f, <<"synthesizer is not a function">>)
  /\ UNCHANGED <<chatVars, san, ttsEnv, trn, page>>

\* openai.ts lines 33-44: audio.speech.create returned the audio.
SpeechCreateReturn ==
  /\ tts.pc = "audio.speech.create"
  /\ ttsEnv.OPENAI_API_KEY
  /\ tts' = [tts EXCEPT !.pc = "done",
                        !.result = [kind |-> "handle", value |-> <<"data:audio/mp3;base64,">>]]
  /\ UNCHANGED <<chatVars, san, ttsEnv, trn, page>>

\* audio.speech.create failed (always so without a key).
SpeechCreateFails ==
  /\ tts.pc = "audio.speech.create"
  /\ tts' = TtsThrow(tts, <<"APIError">>)
  /\ UNCHANGED <<chatVars, san, ttsEnv, trn, page>>

\* elevenlabs.ts lines 60-68: fetch returned.
FetchReturn ==
  /\ tts.pc = "fetch"
  /\ \/ tts' = [tts EXCEPT !.pc = "done",
                           !.result = [kind |-> "handle", value |-> <<"data:audio/mpeg;base64,">>]]
     \/ tts' = TtsThrow(tts, <<"ElevenLabs API error: ">>)
  /\ UNCHANGED <<chatVars, san, ttsEnv, trn, page>>

\* fetch rejected (no connection).
FetchFails ==
  /\ tts.pc = "fetch"
  /\ tts' = TtsThrow(tts, <<"fetch failed">>)
  /\ UNCHANGED <<chatVars, san, ttsEnv, trn, page>>

TtsNext ==
  \/ SynthesizeSpeech
  \/ SpeechCreateReturn
  \/ SpeechCreateFails
  \/ FetchReturn
  \/ FetchFails

TtsSpec == TtsInit /\ [][TtsNext]_vars

TtsCalled == tts.pc # "idle"
Selected == IF tts.provider = UNDEFINED THEN "openai" ELSE tts.provider
IsUnknownProvider(result) ==
  result.kind = "error" /\ result.value[1] = "Unknown TTS provider: "
IsMisconfigured(result) ==
  result.kind = "error" /\ result.value[1] = "ElevenLabs API key not configured. "
CredentialAbsent ==
  \/ Selected = "openai" /\ ~ttsEnv.OPENAI_API_KEY
  \/ Selected = "elevenlabs" /\ ~ttsEnv.ELEVENLABS_API_KEY

\* C8: a provider name that is not registered makes synthesizeSpeech fail with
\* the unknown-provider error; nothing is invoked and no network call is made.
C8_UnknownProviderRejected ==
  (TtsCalled /\ Selected \notin Registered) =>
    /\ tts.pc = "done"
    /\ IsUnknownProvider(tts.result)
    /\ tts.backend = ""
    /\ tts.calls = <<>>

\* C9: with the selected, registered backend's credential absent,
\* synthesizeSpeech fails with the misconfiguration error before any network
\* call; and no backend but the selected one is ever invoked.
C9_MissingCredentialRejected ==
  /\ (TtsCalled /\ Selected \in Registered /\ CredentialAbsent) =>
       /\ tts.pc = "done"
       /\ IsMisconfigured(tts.result)
       /\ tts.calls = <<>>
  /\ (TtsCalled /\ Selected \in Registered) => tts.backend = Providers(Selected)

\* C10: the text the OpenAI backend is given is the input itself when the
\* input has at most 4096 characters, and otherwise its first 4093 characters
\* followed by "...", 4096 characters in all; the call is made either way
\* and fails only if the remote call does.
C10_TruncatesToLimit ==
  tts.backend = "synthesizeWithOpenAI" =>
    LET input == tts.calls[1].input
        n == Len(tts.text)
    IN /\ Len(tts.calls) = 1
       /\ n <= maxLength => input = tts.text
       /\ n > maxLength =>
            /\ Len(input) = maxLength
            /\ \A i \in 1..(maxLength - 3) : input[i] = tts.text[i]
            /\ \A i \in (maxLength - 2)..maxLength : input[i] = "."
       /\ (tts.pc = "done" /\ tts.result.kind = "error") => tts.result.value = <<"APIError">>

\* C10 witness: a text of 5000 characters was cut to 4096 and a handle returned.
C10_Witness ==
  /\ tts.pc = "done"
  /\ tts.backend = "synthesizeWithOpenAI"
  /\ Len(tts.text) = MaxTtsLen
  /\ Len(tts.calls[1].input) = maxLength
  /\ tts.result.kind = "handle"

-----------------------------------------------------------------------------
(* TranscribeSpec: the transcription endpoint, POST of                     *)
(* src/app/api/transcribe/route.ts.  The handler keeps no state between    *)
(* requests.                                                               *)

\* What a caller may send: a body request.formData() rejects (no body, or a
\* body that is no form), a form without the audio field, a form whose audio
\* field is the empty string, and a form with an audio file, empty or not.
Forms ==
  {[parsable |-> FALSE, audio |-> "absent"]}
    \cup [parsable : {TRUE}, audio : {"absent", "emptyString", "emptyFile", "file"}]

\* !audioFile for formData.get('audio'): null and "" are falsy, a File is not.
FalsyAudio(a) == a \in {"absent", "emptyString"}

\* What a failing transcriptions.create throws: an API error with or without
\* status, or another error.
TrnErrors ==
  ApiErrors \cup {[kind |-> "Error", status |-> 0, message |-> <<"Unsupported file">>]}

\* The texts whisper may return.
Transcripts == {<<"h", "e", "l", "l", "o">>, <<>>}

\* The catch block, lines 30-44.
TrnErrorResponse(err) ==
  IF err.kind = "APIError"
  THEN [status |-> IF err.status # 0 THEN err.status ELSE 500,
        error |-> <<"OpenAI API Error: ">> \o err.message, text |-> <<>>]
  ELSE [status |-> 500, error |-> <<"Transcription failed">>, text |-> <<>>]

TrnCatch(f, err) ==
  [f EXCEPT !.pc = "done", !.thrown = err, !.response = TrnErrorResponse(err)]

TranscribeInit ==
  /\ ChatIdle
  /\ san = SanIdle
  /\ ttsEnv = TtsEnvIdle
  /\ tts = TtsIdle
  /\ trn = TrnIdle
  /\ page = PageIdle

\* Lines 9-25: a request arrives; the form is read and the audio field tested.
TranscribePOST(r) ==
  /\ trn[r].pc = "idle"
  /\ \E form \in Forms :
       LET f == [TrnFrame0 EXCEPT !.form = form]
       IN trn' = [trn EXCEPT ![r] =
            IF ~form.parsable
            THEN TrnCatch(f, [kind |-> "TypeError", status |-> 0,
                              message |-> <<"Failed to parse body as FormData.">>])
            ELSE IF FalsyAudio(form.audio)
            THEN [f EXCEPT !.pc = "done",
                           !.response = [status |-> 400,
                                         error |-> <<"Audio file is required">>,
                                         text |-> <<>>]]
            ELSE [f EXCEPT !.pc = "transcriptions.create",
                           !.calls = <<"transcriptions.create">>]]
  /\ UNCHANGED <<chatVars, san, ttsEnv, tts, page>>

\* Lines 21-29: the transcription returned.
TranscriptionsCreateReturn(r) ==
  /\ trn[r].pc = "transcriptions.create"
  /\ \E text \in Transcripts :
       trn' = [trn EXCEPT ![r] =
         [@ EXCEPT !.pc = "done",
                   !.response = [status |-> 200, error |-> <<>>, text |-> text]]]
  /\ UNCHANGED <<chatVars, san, ttsEnv, tts, page>>

\* Lines 30-44: the transcription call failed.
TranscriptionsCreateFails(r) ==
  /\ trn[r].pc = "transcriptions.create"
  /\ \E e \in TrnErrors : trn' = [trn EXCEPT ![r] = TrnCatch(@, e)]
  /\ UNCHANGED <<chatVars, san, ttsEnv, tts, page>>

TranscribeNext ==
  \E r \in Reqs :
    \/ TranscribePOST(r)
    \/ TranscriptionsCreateReturn(r)
    \/ TranscriptionsCreateFails(r)

TranscribeSpec == TranscribeInit /\ [][TranscribeNext]_vars

\* The request supplied no audio payload: no readable form, no audio field,
\* or an empty one.
NoAudioPayload(form) == ~form.parsable \/ FalsyAudio(form.audio)

\* C26: a transcription request without audio payload is answered 400 and
\* issues no remote call; any other request issues exactly one
\* transcriptions.create and is answered with its text on success, and on
\* failure with the upstream status, or 500 when there is none.
C26_TranscribeContract ==
  \A r \in Reqs :
    LET f == trn[r]
    IN /\ Len(f.calls) <= 1
       /\ (f.pc # "idle" /\ NoAudioPayload(f.form)) =>
            /\ f.pc = "done"
            /\ f.response.status = 400
            /\ f.calls = <<>>
       /\ (f.pc # "idle" /\ ~NoAudioPayload(f.form)) =>
            /\ f.calls = <<"transcriptions.create">>
            /\ (f.pc = "done" /\ f.thrown = NoError) => f.response.status = 200
            /\ (f.pc = "done" /\ f.thrown # NoError) =>
                 f.response.status =
                   IF f.thrown.kind = "APIError" /\ f.thrown.status # 0
                   THEN f.thrown.status ELSE 500


-----------------------------------------------------------------------------
(* PageSpec: the chat page (the Home component) in one browser tab.  Every *)
(* event handler and every continuation after an await runs to its end     *)
(* before the next one starts, and React renders between them, so each      *)
(* handler reads the state the one before it left.  Ids are readings of the *)
(* millisecond clock.  The speech block of sendMessage changes isSpeaking   *)
(* only and is left out.                                                    *)

\* The last reading of Date.now().
MaxNow == 2

\* The chats the page holds at most.
MaxChats == 2

\* The requests the user sends at most.
MaxSends == 2

\* What the user submits: nothing, a blank, a question.
PageTexts == { <<>>, <<" ">>, <<"q">> }

\* data.response of a 200 response.
AnswerText == <<"Ok">>

\* The fixed text of the catch block, line 346.
ErrorText == <<"Sorry, I encountered an error. Please try again.">>

ChatId(n) == <<"chat", n>>

Message(id, role, content) == [id |-> id, role |-> role, content |-> content]

\* A chat with no thread and no messages, lines 191-197 and 246-252; cleared
\* records that clearChat emptied it and nothing was sent in it since.
NewChat(n) ==
  [id |-> ChatId(n), threadId |-> NULL, messages |-> <<>>, cleared |-> FALSE]

\* A chat that loadChats found in localStorage: one turn at time 0, answered
\* at time 1.
StoredChat ==
  [id |-> ChatId(0), threadId |-> <<"thread", 1>>,
   messages |-> << Message(0, "user", <<"q">>), Message(2, "assistant", AnswerText) >>,
   cleared |-> FALSE]

\* The page after the mount effect of lines 141-147.
PageInit ==
  /\ ChatIdle
  /\ san = SanIdle
  /\ ttsEnv = TtsEnvIdle
  /\ tts = TtsIdle
  /\ trn = TrnIdle
  /\ page \in { [PageIdle EXCEPT !.now = 1],
                [PageIdle EXCEPT !.now = 1, !.chats = <<StoredChat>>,
                                 !.activeChatId = ChatId(0), !.nThreads = 1] }

\* chats.find(c => c.id === id): the index of the first such chat, or 0.
FindChat(chats, id) ==
  IF \E i \in 1..Len(chats) : chats[i].id = id
  THEN CHOOSE i \in 1..Len(chats) :
         chats[i].id = id /\ \A j \in 1..(i - 1) : chats[j].id # id
  ELSE 0

\* Time passes.
Tick ==
  /\ page.now < MaxNow
  /\ page' = [page EXCEPT !.now = @ + 1]
  /\ UNCHANGED <<chatVars, san, ttsEnv, tts, trn>>

\* Lines 190-201.
CreateNewChat ==
  /\ Len(page.chats) < MaxChats
  /\ page' = [page EXCEPT !.chats = <<NewChat(page.now)>> \o @,
                          !.activeChatId = ChatId(page.now)]
  /\ UNCHANGED <<chatVars, san, ttsEnv, tts, trn>>

\* Line 416: a chat of the sidebar is selected.
SelectChat(i) ==
  /\ i \in 1..Len(page.chats)
  /\ page' = [page EXCEPT !.activeChatId = page.chats[i].id]
  /\ UNCHANGED <<chatVars, san, ttsEnv, tts, trn>>

\* Lines 203-214.
DeleteChat(i) ==
  /\ i \in 1..Len(page.chats)
  /\ LET chatId == page.chats[i].id
         IsKept(c) == c.id # chatId
         filtered == SelectSeq(page.chats, IsKept)
     IN page' = [page EXCEPT
          !.chats = filtered,
          !.activeChatId =
             IF page.activeChatId = chatId
             THEN IF Len(filtered) > 0 THEN filtered[1].id ELSE NULL
             ELSE @]
  /\ UNCHANGED <<chatVars, san, ttsEnv, tts, trn>>

\* Lines 216-222.
ClearChat(i) ==
  /\ i \in 1..Len(page.chats)
  /\ LET chatId == page.chats[i].id
     IN page' = [page EXCEPT !.chats =
          [j \in 1..Len(page.chats) |->
             IF page.chats[j].id = chatId
             THEN [page.chats[j] EXCEPT !.messages = <<>>, !.threadId = NULL,
                                        !.cleared = TRUE]
             ELSE page.chats[j]]]
  /\ UNCHANGED <<chatVars, san, ttsEnv, tts, trn>>

\* Lines 243-287: sendMessage from the test of line 241 to the await of the
\* fetch.
Send(text) ==
  LET isNew == page.activeChatId = NULL
      currentChatId == IF isNew THEN ChatId(page.now) ELSE page.activeChatId
      withNew == IF isNew THEN <<NewChat(page.now)>> \o page.chats ELSE page.chats
      userMessage == Message(page.now, "user", Trim(text))
      currentChat == FindChat(page.chats, currentChatId)
      threadId == IF currentChat = 0 THEN NULL ELSE page.chats[currentChat].threadId
  IN [page EXCEPT
       !.chats = [j \in 1..Len(withNew) |->
                    IF withNew[j].id = currentChatId
                    THEN [withNew[j] EXCEPT !.messages = Append(@, userMessage),
                                            !.cleared = FALSE]
                    ELSE withNew[j]],
       !.activeChatId = currentChatId,
       !.isLoading = TRUE,
       !.sends = @ + 1,
       !.inflight = @ \cup { [n |-> page.sends + 1, chatId |-> currentChatId,
                              userMessage |-> userMessage, threadId |-> threadId] }]

\* SendMessage without the isLoading test of line 241.
SendMessageWhileLoading(text) ==
  /\ IF Trim(text) = <<>>
     THEN page' = page
     ELSE /\ page.sends < MaxSends
          /\ page.activeChatId = NULL => Len(page.chats) < MaxChats
          /\ page' = Send(text)
  /\ UNCHANGED <<chatVars, san, ttsEnv, tts, trn>>

\* Lines 240-287: sendMessage up to the await of the fetch.
SendMessage(text) ==
  /\ IF Trim(text) = <<>> \/ page.isLoading
     THEN page' = [page EXCEPT !.ignored = @ \/ page.isLoading]
     ELSE /\ page.sends < MaxSends
          /\ page.activeChatId = NULL => Len(page.chats) < MaxChats
          /\ page' = Send(text)
  /\ UNCHANGED <<chatVars, san, ttsEnv, tts, trn>>

\* The n-th request sent is in flight.
Outstanding(n) == \E q \in page.inflight : q.n = n
Request(n) == CHOOSE q \in page.inflight : q.n = n

\* Lines 291-312 and 356-358: the fetch returned a 200 response.  The thread id
\* of the body is the one the request carried, or that of the thread the
\* server opened for it (route.ts lines 122-126 and 184).
FetchOk(n) ==
  /\ Outstanding(n)
  /\ LET q == Request(n)
         dataThreadId ==
           IF q.threadId # NULL THEN q.threadId ELSE <<"thread", page.nThreads + 1>>
         assistantMessage == Message(page.now + 1, "assistant", AnswerText)
         IsOther(m) == m.id # q.userMessage.id
     IN page' = [page EXCEPT
          !.chats = [j \in 1..Len(page.chats) |->
                       IF page.chats[j].id = q.chatId
                       THEN [page.chats[j] EXCEPT
                               !.messages = SelectSeq(@, IsOther)
                                              \o <<q.userMessage, assistantMessage>>,
                               !.threadId = IF dataThreadId # NULL THEN dataThreadId ELSE @]
                       ELSE page.chats[j]],
          !.nThreads = IF q.threadId = NULL THEN @ + 1 ELSE @,
          !.isLoading = FALSE,
          !.inflight = @ \ {q}]
  /\ UNCHANGED <<chatVars, san, ttsEnv, tts, trn>>

\* Lines 341-358: the catch block and the finally block of sendMessage.
CatchBlock(q) ==
  LET errorMessage == Message(page.now + 1, "assistant", ErrorText)
  IN [page EXCEPT
       !.chats = [j \in 1..Len(page.chats) |->
                    IF page.chats[j].id = q.chatId
                    THEN [page.chats[j] EXCEPT !.messages = Append(@, errorMessage)]
                    ELSE page.chats[j]],
       !.isLoading = FALSE,
       !.inflight = @ \ {q}]

\* Line 289: the response is not OK.
FetchNotOk(n) ==
  /\ Outstanding(n)
  /\ page' = CatchBlock(Request(n))
  /\ UNCHANGED <<chatVars, san, ttsEnv, tts, trn>>

\* Lines 280 and 291: the fetch, or the reading of the body, is rejected.
FetchThrows(n) ==
  /\ Outstanding(n)
  /\ page' = CatchBlock(Request(n))
  /\ UNCHANGED <<chatVars, san, ttsEnv, tts, trn>>

PageNext ==
  \/ Tick
  \/ CreateNewChat
  \/ \E i \in 1..MaxChats :
       \/ SelectChat(i)
       \/ DeleteChat(i)
       \/ ClearChat(i)
  \/ \E text \in PageTexts : SendMessage(text)
  \/ \E n \in 1..MaxSends :
       \/ FetchOk(n)
       \/ FetchNotOk(n)
       \/ FetchThrows(n)

PageSpec == PageInit /\ [][PageNext]_vars

\* C33: a chat that clearChat emptied has no thread id and no messages as long
\* as nothing is sent in it.
C33_ClearedStaysEmpty ==
  \A i \in 1..Len(page.chats) :
    page.chats[i].cleared =>
      page.chats[i].threadId = NULL /\ page.chats[i].messages = <<>>

AssistantCount(messages) ==
  Cardinality({k \in 1..Len(messages) : messages[k].role = "assistant"})

\* What a step that settles request q leaves: isLoading false and, in every
\* chat with the id of the request, an assistant message at the end, one
\* assistant message more than before (line 305 removes an earlier one that
\* has the id of the user message) and never two more.
SettledWell(q) ==
  /\ page'.isLoading = FALSE
  /\ Len(page'.chats) = Len(page.chats)
  /\ \A i \in 1..Len(page.chats) :
       LET old == page.chats[i].messages
           new == page'.chats[i].messages
       IN IF page.chats[i].id # q.chatId
          THEN page'.chats[i] = page.chats[i]
          ELSE /\ new # <<>>
               /\ new[Len(new)].role = "assistant"
               /\ new[Len(new)].content \in {AnswerText, ErrorText}
               /\ AssistantCount(new) <= AssistantCount(old) + 1
               /\ (\A k \in 1..Len(old) :
                     old[k].role = "assistant" => old[k].id # q.userMessage.id)
                    => AssistantCount(new) = AssistantCount(old) + 1

\* C34: a request is sent only when none is in flight and the trimmed text is
\* not empty, so one request at most is outstanding and isLoading says
\* whether one is; the step that settles a request sets isLoading to false
\* and appends one assistant message to the chat of the request.
C34_OneRequestOneReply ==
  /\ [](/\ Cardinality(page.inflight) <= 1
        /\ page.isLoading <=> page.inflight # {})
  /\ [][/\ page'.sends # page.sends =>
             /\ ~page.isLoading
             /\ page.inflight = {}
             /\ \A q \in page'.inflight : q.userMessage.content # <<>>
        /\ \A q \in page.inflight : q \notin page'.inflight => SettledWell(q)]_vars

\* C34 witness: a submission was ignored while a request was in flight, and
\* two requests have been settled, one with the answer after one with the
\* error message, in one chat.
C34_Witness ==
  /\ page.ignored
  /\ page.sends >= 2
  /\ page.inflight = {}
  /\ ~page.isLoading
  /\ \E i \in 1..Len(page.chats) :
       LET ms == page.chats[i].messages
       IN /\ Len(ms) >= 4
          /\ ms[Len(ms)].content = AnswerText
          /\ ms[Len(ms) - 2].content = ErrorText

====
